---- MODULE Spec2Model ----
(***************************************************************************)
(* The sequential rating engine of ranked-doda-2: calculate_ranked_mmr of  *)
(* src/rating_complex.py (and its twin in src/rating.py).                  *)
(*                                                                         *)
(* Reals.  The engine works in float64; the model works in integers:       *)
(*   - logs and exponentials are fixed-point numbers with Scale units per  *)
(*     1.0 (Ln, Exp, Sqrt below compute them to that precision);           *)
(*   - shares are exact fractions [n |-> numerator, d |-> denominator];    *)
(*   - impact scores are whole numbers, position multipliers are counted   *)
(*     in quarters (a = 2.0 is 8, b = -0.25 is -1).                        *)
(* Player names are the integers 1..NPlayers: the rank of the name in      *)
(* ascending string order.  Team labels keep their strings; TeamRank gives *)
(* their string order ('dire' < 'radiant').                                *)
(***************************************************************************)
EXTENDS Integers, Sequences, FiniteSets, TLC

VARIABLES
    cfg,            \* the MmrConfig passed to calculate_ranked_mmr
    match,          \* table match: set of match records
    player_result,  \* table player_result: set of player rows
    impact_result,  \* table impact_result: set of (match_id, player_name, impact)
    pc,             \* "init" | "loop" | "done" | "error"
    df,             \* rows of v_mmr_ordered, as fetched
    groups,         \* df.groupby(group_keys, sort=False): match ids in order
    gi,             \* number of groups the loop has consumed
    ratings,        \* the ledger: player_name -> rating (defaultdict)
    out_frames,     \* one frame (sequence of events) per processed match
    locals,         \* the loop's variables as left by the last processed match
    rating_result,  \* table rating_result
    leaderboard,    \* latest_rating of table leaderboard: player_name -> rating
    sp_in,          \* a team handed to _shares / _integer_split on its own
    sp_out          \* what they returned for it

vars == <<cfg, match, player_result, impact_result, pc, df, groups, gi, ratings, out_frames,
          locals, rating_result,
          leaderboard, sp_in, sp_out>>

---------------------------------------------------------------------------
(* Bounds of the model *)

NPlayers   == 3      \* distinct player names
MaxMatches == 2      \* matches of a history
MaxTime    == 2      \* distinct match timestamps
MaxPos     == 2      \* positions 1..MaxPos
MaxTeam    == 3      \* team size handed to the apportioner on its own
MaxRoster  == 2      \* players of one match within a longer history
MaxTotal   == 12     \* totals handed to the apportioner on its own
Den        == 6      \* shares handed to it on its own count Den-ths

Scale      == 10000  \* fixed-point units per 1.0
LN2        == 6931   \* Scale * ln 2

---------------------------------------------------------------------------
(* Sequence helpers *)

RECURSIVE SumSeq(_)
SumSeq(s) == IF s = <<>> THEN 0 ELSE Head(s) + SumSeq(Tail(s))

RECURSIVE Flatten(_)
Flatten(ss) == IF ss = <<>> THEN <<>> ELSE Head(ss) \o Flatten(Tail(ss))

Abs(x) == IF x < 0 THEN -x ELSE x
Max(a, b) == IF a >= b THEN a ELSE b
Min(a, b) == IF a <= b THEN a ELSE b
Clip(x, lo, hi) == Min(Max(x, lo), hi)   \* np.clip: minimum(maximum(x, lo), hi)

---------------------------------------------------------------------------
(* Fixed-point numerics *)

RECURSIVE Pow2Below(_, _)
\* the largest power of two <= k, searched upwards from p
Pow2Below(k, p) == IF 2 * p > k THEN p ELSE Pow2Below(k, 2 * p)

RECURSIVE Log2Of(_)
Log2Of(p) == IF p <= 1 THEN 0 ELSE 1 + Log2Of(p \div 2)

\* fixed-point product and square
Mul(a, b) == (a * b) \div Scale
Sq(a) == (a * a) \div Scale

RECURSIVE AtanhTerms(_, _, _)
\* y^k / k + y^(k+2) / (k+2) + ... up to y^9 / 9, pw = y^k and y2 = y^2
AtanhTerms(pw, y2, k) ==
    IF k > 9 THEN 0 ELSE pw \div k + AtanhTerms(Mul(pw, y2), y2, k + 2)

Atanh(y) == AtanhTerms(y, Sq(y), 1)

\* k = m * p with p a power of two and 1 <= m < 2:
\* ln k = log2(p) * ln 2 + 2 * atanh((m - 1) / (m + 1))
LnReduced(k, p) == Log2Of(p) * LN2 + 2 * Atanh(((k - p) * Scale) \div (k + p))

\* Scale * ln(k) for an integer k >= 1
LnInt(k) == LnReduced(k, Pow2Below(k, 1))

\* Scale * ln(n / d) for integers n, d >= 1
Ln(n, d) == LnInt(n) - LnInt(d)

RECURSIVE SqrtSearch(_, _, _)
SqrtSearch(v, lo, hi) ==
    IF lo >= hi THEN lo
    ELSE LET mid == (lo + hi + 1) \div 2
         IN  IF mid * mid <= v THEN SqrtSearch(v, mid, hi)
             ELSE SqrtSearch(v, lo, mid - 1)

\* Scale * sqrt(x / Scale) for a fixed-point x in 0..Scale
Sqrt(x) == SqrtSearch(x * Scale, 0, Scale)

\* 1 + h + h^2/2 + h^3/6 + h^4/24
ExpSeries(h) ==
    Scale + h + Sq(h) \div 2 + Mul(Sq(h), h) \div 6 + Sq(Sq(h)) \div 24

\* Scale * exp(x / Scale): exp(x) = exp(x/8)^8, the inner one by its series
Exp(x) == Sq(Sq(Sq(ExpSeries(x \div 8))))

\* Python's round(): to the nearest integer, a half to the even one; v counts
\* in units of 1/unit
RoundHalfEven(v, unit) ==
    IF 2 * (v % unit) < unit THEN v \div unit
    ELSE IF 2 * (v % unit) > unit THEN v \div unit + 1
    ELSE IF (v \div unit) % 2 = 0 THEN v \div unit ELSE v \div unit + 1

---------------------------------------------------------------------------
(* Configuration: MmrConfig.  Whole numbers unless said otherwise; w_th and  *)
(* w_k count tenths, merit_weight hundredths, pos_a and pos_b quarters.      *)
(* dur_power = 0.5 (Sqrt) and map_gamma = 1.0 (the identity) are fixed.      *)

DEFAULT_MMR ==
    [ initial_mmr  |-> 500,
      base_pool    |-> 50,
      pool_gamma   |-> 25,
      pool_min     |-> 25,
      pool_max     |-> 400,
      ref_seconds  |-> 5400,
      th_clip      |-> 2,
      k_alpha      |-> 2,
      w_th         |-> 6,
      w_k          |-> 4,
      merit_weight |-> 80,
      team_radiant |-> "radiant",
      team_dire    |-> "dire",
      pos_a        |-> 8,
      pos_b        |-> -1 ]

WUnit  == 10     \* w_th, w_k: units per 1.0
MUnit  == 100    \* merit_weight: units per 1.0
PUnit  == 4      \* pos_a, pos_b: units per 1.0
EPS_LN == 207233 \* Scale * ln(1e9): the strength floor 1e-9, as a log

---------------------------------------------------------------------------
(* The views: v_mmr_inputs and v_mmr_ordered *)

TeamRank(t) == IF t = "dire" THEN 1 ELSE IF t = "radiant" THEN 2 ELSE 3

\* match m join player_result pr using(match_id)
\*         left join impact_result ir using(match_id, player_name),
\* with coalesce(ir.impact, 0.0)
MmrInputs(mt, prt, irt) ==
    UNION { { [ match_id      |-> m.match_id,
                date_time     |-> m.date_time,
                duration_sec  |-> m.duration_sec,
                radiant_kills |-> m.radiant_kills,
                dire_kills    |-> m.dire_kills,
                winning_team  |-> m.winning_team,
                player_name   |-> pr.player_name,
                team          |-> pr.team,
                position      |-> pr.position,
                impact        |-> imp ] :
              imp \in LET hit == { ir \in irt : /\ ir.match_id = pr.match_id
                                                /\ ir.player_name = pr.player_name }
                      IN  IF hit = {} THEN {0} ELSE { ir.impact : ir \in hit } } :
            <<m, pr>> \in { x \in mt \X prt : x[1].match_id = x[2].match_id } }

\* where team in ('radiant','dire') and winning_team in ('radiant','dire')
MmrFiltered(rows) ==
    { r \in rows : /\ r.team \in {"radiant", "dire"}
                   /\ r.winning_team \in {"radiant", "dire"} }

\* (variant) order by match_id, team, position: the timestamp left out
OrderKeyLess_by_id(r1, r2) ==
    \/ r1.match_id < r2.match_id
    \/ /\ r1.match_id = r2.match_id
       /\ \/ TeamRank(r1.team) < TeamRank(r2.team)
          \/ /\ r1.team = r2.team
             /\ r1.position < r2.position

\* order by date_time, match_id, team, position
OrderKeyLess(r1, r2) ==
    \/ r1.date_time < r2.date_time
    \/ /\ r1.date_time = r2.date_time
       /\ \/ r1.match_id < r2.match_id
          \/ /\ r1.match_id = r2.match_id
             /\ \/ TeamRank(r1.team) < TeamRank(r2.team)
                \/ /\ r1.team = r2.team
                   /\ r1.position < r2.position

RECURSIVE SortedSeqs(_)
\* every sequence of the rows of S that respects the order by, rows the
\* order by does not tell apart in either order
SortedSeqs(S) ==
    IF S = {} THEN { <<>> }
    ELSE UNION { { <<r>> \o t : t \in SortedSeqs(S \ {r}) } :
                 r \in { x \in S : \A y \in S : ~OrderKeyLess(y, x) } }

\* what "select * from v_mmr_ordered" may return for the tables mt, prt, irt
MmrOrdered(mt, prt, irt) == SortedSeqs(MmrFiltered(MmrInputs(mt, prt, irt)))

v_mmr_inputs  == MmrInputs(match, player_result, impact_result)
v_mmr_ordered == MmrOrdered(match, player_result, impact_result)

RECURSIVE GroupKeys(_, _)
\* df.groupby(group_keys, sort=False): the keys in order of first appearance
\* (the other key columns are functions of match_id, the table's primary key)
GroupKeys(d, seen) ==
    IF d = <<>> THEN <<>>
    ELSE IF Head(d).match_id \in seen THEN GroupKeys(Tail(d), seen)
    ELSE <<Head(d).match_id>> \o GroupKeys(Tail(d), seen \cup {Head(d).match_id})

\* (variant) the rows of group mid in the reverse of df order
GroupRows_reversed(d, mid) ==
    [i \in 1..Len(SelectSeq(d, LAMBDA r : r.match_id = mid)) |->
        SelectSeq(d, LAMBDA r : r.match_id = mid)
            [Len(SelectSeq(d, LAMBDA r : r.match_id = mid)) + 1 - i]]

\* the rows of group mid, in df order
GroupRows(d, mid) == SelectSeq(d, LAMBDA r : r.match_id = mid)

---------------------------------------------------------------------------
(* Merit Allocator and Integer Apportioner *)

\* v: the numerators of n values over one positive denominator.  The sum is
\* > 1e-12 exactly when the numerators sum to 1 or more; else the uniform 1/n
\* (variant) the vector left as it is, not divided by its sum
_normalize_unscaled(v) == [i \in 1..Len(v) |-> [n |-> v[i], d |-> 1]]

\* (variant) no uniform fallback: a zero sum leaves every entry at zero
_normalize_nofallback(v) ==
    [i \in 1..Len(v) |-> [n |-> v[i], d |-> Max(SumSeq(v), 1)]]

_normalize(v) ==
    LET s == SumSeq(v)
    IN  IF s >= 1 THEN [i \in 1..Len(v) |-> [n |-> v[i], d |-> s]]
        ELSE [i \in 1..Len(v) |-> [n |-> 1, d |-> Len(v)]]

\* clip((x + 100) / 200, 0, 1) ** 1.0, counted in 200ths
_impact01(x) == [i \in 1..Len(x) |-> Clip(x[i] + 100, 0, 200)]

\* (variant) the equal-split term not divided by the team size
_shares_floor_whole(impact, winners, merit_w) ==
    LET merit_raw == _impact01(IF winners THEN impact
                               ELSE [i \in 1..Len(impact) |-> -impact[i]])
        merit     == _normalize(merit_raw)
        n         == Len(merit)
    IN  [ share |-> [i \in 1..n |->
                       [ n |-> merit_w * merit[i].n * n
                               + (MUnit - merit_w) * merit[i].d * n,
                         d |-> MUnit * merit[i].d * n ]],
          tie   |-> merit_raw ]

\* (variant) the normalised merit alone, whatever the merit weight
_shares_merit_only(impact, winners, merit_w) ==
    LET merit_raw == _impact01(IF winners THEN impact
                               ELSE [i \in 1..Len(impact) |-> -impact[i]])
        merit     == _normalize(merit_raw)
        n         == Len(merit)
    IN  [ share |-> [i \in 1..n |->
                       [ n |-> MUnit * merit[i].n * n,
                         d |-> MUnit * merit[i].d * n ]],
          tie   |-> merit_raw ]

\* (variant) the impact taken with the same sign on both sides
_shares_unsigned(impact, winners, merit_w) ==
    LET merit_raw == _impact01(impact)
        merit     == _normalize(merit_raw)
        n         == Len(merit)
    IN  [ share |-> [i \in 1..n |->
                       [ n |-> merit_w * merit[i].n * n
                               + (MUnit - merit_w) * merit[i].d,
                         d |-> MUnit * merit[i].d * n ]],
          tie   |-> merit_raw ]

\* share = merit_w * merit + (1 - merit_w) * (1/n), and the tie key merit_raw
_shares(impact, winners, merit_w) ==
    LET merit_raw == _impact01(IF winners THEN impact
                               ELSE [i \in 1..Len(impact) |-> -impact[i]])
        merit     == _normalize(merit_raw)
        n         == Len(merit)
    IN  [ share |-> [i \in 1..n |->
                       [ n |-> merit_w * merit[i].n * n
                               + (MUnit - merit_w) * merit[i].d,
                         d |-> MUnit * merit[i].d * n ]],
          tie   |-> merit_raw ]

\* np.lexsort((idx, -tie_key, -frac)): j sorts before i
SplitBefore(frac, tie_key, j, i) ==
    \/ frac[j] > frac[i]
    \/ frac[j] = frac[i] /\ tie_key[j] > tie_key[i]
    \/ frac[j] = frac[i] /\ tie_key[j] = tie_key[i] /\ j < i

\* (variant) the floors alone, the remainder not handed out
_integer_split_floor(weights, total, tie_key) ==
    [i \in 1..Len(weights) |->
        (_normalize([k \in 1..Len(weights) |-> weights[k].n])[i].n * total)
          \div _normalize([k \in 1..Len(weights) |-> weights[k].n])[i].d]

\* (variant) one unit more than the remainder handed out
_integer_split_offbyone(weights, total, tie_key) ==
    LET n    == Len(weights)
        w    == _normalize([i \in 1..n |-> weights[i].n])
        raw  == [i \in 1..n |-> w[i].n * total]
        base == [i \in 1..n |-> raw[i] \div w[i].d]
        rem  == total - SumSeq(base)
        frac == [i \in 1..n |-> raw[i] % w[i].d]
        rank == [i \in 1..n |->
                   Cardinality({ j \in 1..n : SplitBefore(frac, tie_key, j, i) })]
    IN  [i \in 1..n |-> IF rank[i] <= rem THEN base[i] + 1 ELSE base[i]]

\* (variant) the whole remainder handed to the first row of the order
_integer_split_first(weights, total, tie_key) ==
    LET n    == Len(weights)
        w    == _normalize([i \in 1..n |-> weights[i].n])
        raw  == [i \in 1..n |-> w[i].n * total]
        base == [i \in 1..n |-> raw[i] \div w[i].d]
        rem  == total - SumSeq(base)
        frac == [i \in 1..n |-> raw[i] % w[i].d]
        rank == [i \in 1..n |->
                   Cardinality({ j \in 1..n : SplitBefore(frac, tie_key, j, i) })]
    IN  [i \in 1..n |-> IF rank[i] = 0 THEN base[i] + rem ELSE base[i]]

\* weights: fractions over one denominator; total: the pool
_integer_split(weights, total, tie_key) ==
    LET n    == Len(weights)
        w    == _normalize([i \in 1..n |-> weights[i].n])
        raw  == [i \in 1..n |-> w[i].n * total]            \* over w[i].d
        base == [i \in 1..n |-> raw[i] \div w[i].d]
        rem  == total - SumSeq(base)
        frac == [i \in 1..n |-> raw[i] % w[i].d]           \* over w[i].d
        rank == [i \in 1..n |->
                   Cardinality({ j \in 1..n : SplitBefore(frac, tie_key, j, i) })]
    IN  IF rem <= 0 THEN base
        ELSE [i \in 1..n |-> IF rank[i] < rem THEN base[i] + 1 ELSE base[i]]

---------------------------------------------------------------------------
(* Skew Calculator and Pool Sizer *)

\* a + b * (pos - 1), in quarters
_pos_mult(pos, c) == c.pos_a + c.pos_b * (pos - 1)

\* sum(before * _pos_mult(pos)), in quarters
Strength(before, pos, c) ==
    SumSeq([i \in 1..Len(before) |-> before[i] * _pos_mult(pos[i], c)])

\* log(max(R, 1e-9) / max(D, 1e-9)) for strengths in quarters
\* (variant) only the dire strength floored: a non-positive radiant strength
\* has logarithm minus infinity, whatever the dire strength
StrengthLog_one_floor(R, D) ==
    IF R >= 1 /\ D >= 1 THEN Ln(R, D)
    ELSE IF R >= 1 THEN Ln(R, PUnit) + EPS_LN
    ELSE -EPS_LN

StrengthLog(R, D) ==
    IF R >= 1 /\ D >= 1 THEN Ln(R, D)
    ELSE IF R >= 1 THEN Ln(R, PUnit) + EPS_LN
    ELSE IF D >= 1 THEN -(Ln(D, PUnit) + EPS_LN)
    ELSE 0

ThLog_wide(R, D, c) ==
    Clip(StrengthLog(R, D), -(c.th_clip + 1) * Scale, (c.th_clip + 1) * Scale)

ThLog(R, D, c) == Clip(StrengthLog(R, D), -c.th_clip * Scale, c.th_clip * Scale)

\* (min(dur, ref_seconds) / ref_seconds) ** 0.5
Shrink(dur, c) == Sqrt((Min(dur, c.ref_seconds) * Scale) \div c.ref_seconds)

\* shrink * log((rk + k_alpha) / (dk + k_alpha))
KLog(rk, dk, dur, c) == Mul(Shrink(dur, c), Ln(rk + c.k_alpha, dk + c.k_alpha))

\* z = w_th * th_log + w_k * k_log, over WUnit * Scale
Evidence(th_log, k_log, c) == c.w_th * th_log + c.w_k * k_log

\* int(round(clip(base_pool + pool_gamma * |z|, pool_min, pool_max)))
\* (variant) the pool rounded but not clipped
PoolOf_unclipped(th_log, k_log, c) ==
    RoundHalfEven(c.base_pool * (WUnit * Scale)
                    + c.pool_gamma * Abs(Evidence(th_log, k_log, c)),
                  WUnit * Scale)

PoolOf(th_log, k_log, c) ==
    RoundHalfEven(Clip(c.base_pool * (WUnit * Scale)
                         + c.pool_gamma * Abs(Evidence(th_log, k_log, c)),
                       c.pool_min * (WUnit * Scale),
                       c.pool_max * (WUnit * Scale)),
                  WUnit * Scale)

---------------------------------------------------------------------------
(* Rating Ledger and the body of the loop *)

\* ratings is a defaultdict(lambda: int(cfg.initial_mmr))
\* (variant) a player not yet in the ledger read as 0
ReadRating_zero(rt, n, c) == IF n \in DOMAIN rt THEN rt[n] ELSE 0

\* (variant) the ledger never consulted
ReadRating_initial(rt, n, c) == c.initial_mmr

ReadRating(rt, n, c) == IF n \in DOMAIN rt THEN rt[n] ELSE c.initial_mmr

\* (variant) the ledger rebuilt from the rows written, everyone else dropped
WriteRatings_rebuilt(rt, names, after) ==
    [n \in {names[i] : i \in 1..Len(names)} |->
        after[CHOOSE i \in 1..Len(names) : names[i] = n]]

RECURSIVE WriteRatings(_, _, _)
\* for n, v in zip(names, after): ratings[n] = int(v)
WriteRatings(rt, names, after) ==
    IF names = <<>> THEN rt
    ELSE WriteRatings([n \in DOMAIN rt \cup {Head(names)} |->
                          IF n = Head(names) THEN Head(after) ELSE rt[n]],
                      Tail(names), Tail(after))

Neg(v) == [i \in 1..Len(v) |-> -v[i]]
Plus(v, w) == [i \in 1..Len(v) |-> v[i] + w[i]]

\* lines 154-162: the columns of one side's rows and the ratings read for them
Side(rt, rows, c) ==
    [ names  |-> [i \in 1..Len(rows) |-> rows[i].player_name],
      pos    |-> [i \in 1..Len(rows) |-> rows[i].position],
      imp    |-> [i \in 1..Len(rows) |-> rows[i].impact],
      before |-> [i \in 1..Len(rows) |-> ReadRating(rt, rows[i].player_name, c)] ]

\* lines 164-175: th_log and k_log of the match m with sides rad and dire
Skew(m, rad, dire, c) ==
    [ th_log |-> ThLog(Strength(rad.before, rad.pos, c),
                       Strength(dire.before, dire.pos, c), c),
      k_log  |-> KLog(m.radiant_kills, m.dire_kills, m.duration_sec, c) ]

\* (variant) the units credited to both sides
Allot_unsigned(sh, pool, winners) ==
    [ share |-> sh.share,
      units |-> _integer_split(sh.share, pool, sh.tie),
      delta |-> _integer_split(sh.share, pool, sh.tie) ]

\* lines 182-189: one side's shares, units and signed deltas
Allot(sh, pool, winners) ==
    [ share |-> sh.share,
      units |-> _integer_split(sh.share, pool, sh.tie),
      delta |-> IF winners THEN _integer_split(sh.share, pool, sh.tie)
                ELSE Neg(_integer_split(sh.share, pool, sh.tie)) ]

SideAllot(side, pool, winners, c) ==
    Allot(_shares(side.imp, winners, c.merit_weight), pool, winners)

\* (variant) the delta recorded but not added to the rating
SideRows_before(m, side, al, pool, sk) ==
    [i \in 1..Len(side.names) |->
        [ match_id      |-> m.match_id,
          player_name   |-> side.names[i],
          pool          |-> pool,
          th_skew       |-> Exp(sk.th_log),
          pr_skew       |-> Exp(sk.k_log),
          team_share    |-> al.share[i],
          rating_before |-> side.before[i],
          rating_after  |-> side.before[i],
          rating_diff   |-> al.delta[i] ]]

\* lines 197-208: the rows of one side as a frame of events
SideRows(m, side, al, pool, sk) ==
    [i \in 1..Len(side.names) |->
        [ match_id      |-> m.match_id,
          player_name   |-> side.names[i],
          pool          |-> pool,
          th_skew       |-> Exp(sk.th_log),
          pr_skew       |-> Exp(sk.k_log),
          team_share    |-> al.share[i],
          rating_before |-> side.before[i],
          rating_after  |-> side.before[i] + al.delta[i],
          rating_diff   |-> al.delta[i] ]]

\* (variant) the dire rows carry a skew and a pool recomputed from the
\* radiant ratings as they are after the radiant deltas
Settle_interleaved(rt, m, rad, dire, ra, da, pool, sk) ==
    [ skip    |-> FALSE,
      ratings |-> WriteRatings(
                     WriteRatings(rt, rad.names, Plus(rad.before, ra.delta)),
                     dire.names, Plus(dire.before, da.delta)),
      frame   |-> SideRows(m, rad, ra, pool, sk)
                  \o SideRows(m, dire, da,
                       PoolOf(Skew(m, [rad EXCEPT !.before =
                                         Plus(rad.before, ra.delta)],
                                   dire, DEFAULT_MMR).th_log,
                              sk.k_log, DEFAULT_MMR),
                       Skew(m, [rad EXCEPT !.before = Plus(rad.before, ra.delta)],
                            dire, DEFAULT_MMR)),
      locals  |-> [ bound    |-> TRUE,
                    match_id |-> m.match_id,
                    pool     |-> pool,
                    th_log   |-> sk.th_log,
                    k_log    |-> sk.k_log,
                    r_units  |-> ra.units,    d_units  |-> da.units,
                    r_delta  |-> ra.delta,    d_delta  |-> da.delta,
                    r_before |-> rad.before,  d_before |-> dire.before,
                    r_after  |-> Plus(rad.before, ra.delta),
                    d_after  |-> Plus(dire.before, da.delta) ] ]

\* lines 191-209: the ledger written, the frame, the loop's variables
Settle(rt, m, rad, dire, ra, da, pool, sk) ==
    [ skip    |-> FALSE,
      ratings |-> WriteRatings(
                     WriteRatings(rt, rad.names, Plus(rad.before, ra.delta)),
                     dire.names, Plus(dire.before, da.delta)),
      frame   |-> SideRows(m, rad, ra, pool, sk) \o SideRows(m, dire, da, pool, sk),
      locals  |-> [ bound    |-> TRUE,
                    match_id |-> m.match_id,
                    pool     |-> pool,
                    th_log   |-> sk.th_log,
                    k_log    |-> sk.k_log,
                    r_units  |-> ra.units,    d_units  |-> da.units,
                    r_delta  |-> ra.delta,    d_delta  |-> da.delta,
                    r_before |-> rad.before,  d_before |-> dire.before,
                    r_after  |-> Plus(rad.before, ra.delta),
                    d_after  |-> Plus(dire.before, da.delta) ] ]

\* lines 181-186, given the pool
Distribute(rt, m, rad, dire, pool, sk, c) ==
    Settle(rt, m, rad, dire,
           SideAllot(rad, pool, m.winning_team = c.team_radiant, c),
           SideAllot(dire, pool, ~(m.winning_team = c.team_radiant), c),
           pool, sk)

\* lines 177-179, given the skews
Sized(rt, m, rad, dire, sk, c) ==
    Distribute(rt, m, rad, dire, PoolOf(sk.th_log, sk.k_log, c), sk, c)

\* lines 154-209 for the match m (any row of the group carries its columns)
Rated(rt, m, rad, dire, c) == Sized(rt, m, rad, dire, Skew(m, rad, dire, c), c)

\* (variant) only the first row of a side
SideOf_first(g, t) ==
    IF SelectSeq(g, LAMBDA r : r.team = t) = <<>> THEN <<>>
    ELSE <<SelectSeq(g, LAMBDA r : r.team = t)[1]>>

\* lines 151-152: the two sides of a group, in df order
SideOf(g, t) == SelectSeq(g, LAMBDA r : r.team = t)

\* (variant) a group skipped only when both sides are empty
ProcessGroup_either(rt, g, c) ==
    IF SideOf(g, c.team_radiant) = <<>> /\ SideOf(g, c.team_dire) = <<>>
    THEN [skip |-> TRUE]
    ELSE Rated(rt, g[1], Side(rt, SideOf(g, c.team_radiant), c),
               Side(rt, SideOf(g, c.team_dire), c), c)

\* one pass of the loop body over group g (its rows in df order), from the
\* ledger rt: skipped, or the new ledger, the frame appended and the locals
ProcessGroup(rt, g, c) ==
    IF SideOf(g, c.team_radiant) = <<>> \/ SideOf(g, c.team_dire) = <<>>
    THEN [skip |-> TRUE]
    ELSE Rated(rt, g[1], Side(rt, SideOf(g, c.team_radiant), c),
               Side(rt, SideOf(g, c.team_dire), c), c)

\* before the first processed match r_units, pool, ... are unbound names
Unbound == [bound |-> FALSE]

\* lines 210-212: the three asserts after the loop
AssertsHold(l) ==
    /\ SumSeq(l.r_units) = l.pool /\ SumSeq(l.d_units) = l.pool
    /\ SumSeq(l.r_delta) + SumSeq(l.d_delta) = 0
    /\ SumSeq(l.r_before) + SumSeq(l.d_before)
         = SumSeq(l.r_after) + SumSeq(l.d_after)

\* order by match_id, player_name
ResultKeyLess(e1, e2) ==
    \/ e1.match_id < e2.match_id
    \/ e1.match_id = e2.match_id /\ e1.player_name < e2.player_name

RECURSIVE InsertSorted(_, _)
InsertSorted(e, t) ==
    IF t = <<>> THEN <<e>>
    ELSE IF ResultKeyLess(e, Head(t)) THEN <<e>> \o t
    ELSE <<Head(t)>> \o InsertSorted(e, Tail(t))

\* (variant) the frames written as they are
SortResult_unsorted(out) == out

RECURSIVE SortResult(_)
\* create table rating_result as select ... from rating_df order by ...
SortResult(out) ==
    IF out = <<>> THEN <<>>
    ELSE InsertSorted(out[Len(out)], SortResult(SubSeq(out, 1, Len(out) - 1)))

---------------------------------------------------------------------------
(* rating.py: the same engine written with pandas Series and a per-row loop.
   Its views and its skew and pool expressions are those of
   rating_complex.py word for word; the allocator and the loop body are
   translated here from rating.py itself. *)

\* uniform when the sum is not above 1e-12, else v / s
rating_normalize(v) ==
    IF SumSeq(v) <= 0 THEN [i \in 1..Len(v) |-> [n |-> 1, d |-> Len(v)]]
    ELSE [i \in 1..Len(v) |-> [n |-> v[i], d |-> SumSeq(v)]]

\* ((s + 100) / 200).clip(0, 1).pow(1.0), counted in 200ths
rating_impact01(x) == [i \in 1..Len(x) |-> Min(Max(x[i] + 100, 0), 200)]

\* merit_weight * merit + (1 - merit_weight) * floor for normalised merits
rating_blend(merit, c) ==
    [i \in 1..Len(merit) |->
        [ n |-> c.merit_weight * merit[i].n * Len(merit)
                + (MUnit - c.merit_weight) * merit[i].d,
          d |-> MUnit * merit[i].d * Len(merit) ]]

_shares_winners(s_impact, c) ==
    rating_blend(rating_normalize(rating_impact01(s_impact)), c)

_shares_losers(s_impact, c) ==
    rating_blend(rating_normalize(rating_impact01(Neg(s_impact))), c)

\* (variant) rows equal in both keys taken from the last row up
rating_sorts_before_last(frac, tie, j, i) ==
    \/ frac[j] > frac[i]
    \/ frac[j] = frac[i] /\ tie[j] > tie[i]
    \/ frac[j] = frac[i] /\ tie[j] = tie[i] /\ j > i

\* order_df.sort_values(['frac', 'tie', order_df.index.name or 'tie'],
\* ascending=[False, False, True]): the index of g has no name, so the third
\* key is 'tie' again, ascending; rows equal in every key keep their order
rating_sorts_before(frac, tie, j, i) ==
    \/ frac[j] > frac[i]
    \/ frac[j] = frac[i] /\ tie[j] > tie[i]
    \/ frac[j] = frac[i] /\ tie[j] = tie[i] /\ tie[j] < tie[i]
    \/ frac[j] = frac[i] /\ tie[j] = tie[i] /\ j < i

\* the position of row i in order_idx, from 0
rating_order_pos(frac, tie, i) ==
    Cardinality({ j \in 1..Len(frac) : rating_sorts_before(frac, tie, j, i) })

\* alloc after `for i in range(rem): alloc.loc[order_idx[i]] += 1`
rating_alloc(frac, base, rem, tie) ==
    IF rem <= 0 THEN base
    ELSE [i \in 1..Len(base) |->
            IF rating_order_pos(frac, tie, i) < rem THEN base[i] + 1
            ELSE base[i]]

rating_split_base(frac, base, total, tie) ==
    rating_alloc(frac, base, total - SumSeq(base), tie)

rating_split_of(w, raw, total, tie) ==
    rating_split_base([i \in 1..Len(w) |-> raw[i] % w[i].d],
                      [i \in 1..Len(w) |-> raw[i] \div w[i].d], total, tie)

rating_split_raw(w, total, tie) ==
    rating_split_of(w, [i \in 1..Len(w) |-> w[i].n * total], total, tie)

\* rating.py's _integer_split(weights, total, tie_key)
rating_integer_split(weights, total, tie_key) ==
    rating_split_raw(
        rating_normalize([i \in 1..Len(weights) |-> weights[i].n]),
        total, tie_key)

\* the row appended for one player
rating_row(m, name, pool, sk, share, before, delta) ==
    [ match_id      |-> m.match_id,
      player_name   |-> name,
      pool          |-> pool,
      th_skew       |-> Exp(sk.th_log),
      pr_skew       |-> Exp(sk.k_log),
      team_share    |-> share,
      rating_before |-> before,
      rating_after  |-> before + delta,
      rating_diff   |-> delta ]

\* one pass of `for idx, r in rad.iterrows():`: before read from the ledger
\* as the rows above left it, after written back
rating_apply(st, name, before, delta, share, m, pool, sk) ==
    [ ratings |-> [n \in DOMAIN st.ratings \cup {name} |->
                     IF n = name THEN before + delta ELSE st.ratings[n]],
      rows    |-> Append(st.rows,
                         rating_row(m, name, pool, sk, share, before, delta)),
      cfg     |-> st.cfg ]

RECURSIVE rating_iterrows(_, _, _, _, _, _, _, _, _)
rating_iterrows(st, side, i, units, share, win, m, pool, sk) ==
    IF i > Len(side) THEN st
    ELSE rating_iterrows(
           rating_apply(st, side[i].player_name,
                        ReadRating(st.ratings, side[i].player_name, st.cfg),
                        IF win THEN units[i] ELSE -units[i],
                        share[i], m, pool, sk),
           side, i + 1, units, share, win, m, pool, sk)

\* the shares of a side and its tie keys
rating_share(side, win, c) ==
    IF win THEN _shares_winners([i \in 1..Len(side) |-> side[i].impact], c)
    ELSE _shares_losers([i \in 1..Len(side) |-> side[i].impact], c)

rating_tie(side, win) ==
    rating_impact01(IF win THEN [i \in 1..Len(side) |-> side[i].impact]
                    ELSE [i \in 1..Len(side) |-> -side[i].impact])

rating_side_shared(st, side, win, m, pool, sk, share) ==
    rating_iterrows(st, side, 1,
                    rating_integer_split(share, pool, rating_tie(side, win)),
                    share, win, m, pool, sk)

\* one side's rows applied: its units, then the per-row loop
rating_side(st, side, win, m, pool, sk) ==
    rating_side_shared(st, side, win, m, pool, sk,
                       rating_share(side, win, st.cfg))

\* R and D summed over ratings[p] * _pos_mult(pos), then th_log and k_log
rating_skew(rt, m, rad, dire, c) ==
    [ th_log |-> ThLog(
          SumSeq([i \in 1..Len(rad) |->
                    ReadRating(rt, rad[i].player_name, c)
                      * _pos_mult(rad[i].position, c)]),
          SumSeq([i \in 1..Len(dire) |->
                    ReadRating(rt, dire[i].player_name, c)
                      * _pos_mult(dire[i].position, c)]), c),
      k_log  |-> KLog(m.radiant_kills, m.dire_kills, m.duration_sec, c) ]

\* the radiant rows, then the dire rows
rating_rows(st, m, rad, dire, pool, sk) ==
    rating_side(rating_side(st, rad, m.winning_team = st.cfg.team_radiant,
                            m, pool, sk),
                dire, ~(m.winning_team = st.cfg.team_radiant), m, pool, sk)

rating_sized(st, m, rad, dire, sk) ==
    rating_rows(st, m, rad, dire, PoolOf(sk.th_log, sk.k_log, st.cfg), sk)

\* the body of the loop for the group g
rating_group(st, g, rad, dire) ==
    IF rad = <<>> \/ dire = <<>> THEN st
    ELSE rating_sized(st, g[1], rad, dire,
                      rating_skew(st.ratings, g[1], rad, dire, st.cfg))

rating_next(st, g) ==
    rating_group(st, g,
                 SelectSeq(g, LAMBDA r : r.team = st.cfg.team_radiant),
                 SelectSeq(g, LAMBDA r : r.team = st.cfg.team_dire))

RECURSIVE rating_loop(_, _, _)
\* the loop of rating.py over the groups gs of the rows d
rating_loop(st, d, gs) ==
    IF gs = <<>> THEN st
    ELSE rating_loop(rating_next(st, GroupRows(d, Head(gs))), d, Tail(gs))

\* ratings and rows of rating.py after the groups gs of the rows d
rating_calculate_ranked_mmr(d, gs, c) ==
    rating_loop([ratings |-> <<>>, rows |-> <<>>, cfg |-> c], d, gs)

---------------------------------------------------------------------------
(* Inputs: the tables a run starts from *)

Players   == 1..NPlayers
Positions == 1..MaxPos
Teams     == {"radiant", "dire"}

\* (duration_sec, radiant_kills, dire_kills) of a match
Stats == { [duration_sec |-> 1800, radiant_kills |-> 10, dire_kills |-> 2],
           [duration_sec |-> 6000, radiant_kills |-> 0,  dire_kills |-> 30] }

\* a match without a single kill on either side
ZeroKills == [duration_sec |-> 1800, radiant_kills |-> 0, dire_kills |-> 0]
StatsZ == Stats \cup {ZeroKills}

NoImpact == 1000   \* stands for: no impact_result row for this player
Absent == [present |-> FALSE]

\* one player's line in a match: absent, or a team, a position and an impact
PlayerLines(poss, imps) ==
    {Absent} \cup { [present |-> TRUE, team |-> t, position |-> q, impact |-> x] :
                    t \in Teams, q \in poss, x \in imps }

\* one match: its timestamp, statistics, winner and a roster of at most maxr
\* players
MatchSpecs(times, stats, pls, poss, imps, maxr) ==
    { m \in [ date_time    : times,
              stats        : stats,
              winning_team : Teams,
              roster       : [pls -> PlayerLines(poss, imps)] ] :
        Cardinality({ q \in pls : m.roster[q].present }) <= maxr }

MatchTable(h) ==
    { [ match_id      |-> k,
        date_time     |-> h[k].date_time,
        duration_sec  |-> h[k].stats.duration_sec,
        radiant_kills |-> h[k].stats.radiant_kills,
        dire_kills    |-> h[k].stats.dire_kills,
        winning_team  |-> h[k].winning_team ] : k \in DOMAIN h }

PlayerTable(h) ==
    UNION { { [ match_id    |-> k,
                player_name |-> q,
                team        |-> h[k].roster[q].team,
                position    |-> h[k].roster[q].position ] :
              q \in { x \in DOMAIN h[k].roster : h[k].roster[x].present } } :
            k \in DOMAIN h }

ImpactTable(h) ==
    UNION { { [ match_id    |-> k,
                player_name |-> q,
                impact      |-> h[k].roster[q].impact ] :
              q \in { x \in DOMAIN h[k].roster :
                        /\ h[k].roster[x].present
                        /\ h[k].roster[x].impact # NoImpact } } :
            k \in DOMAIN h }

\* configurations other than the default
ZERO_START == [DEFAULT_MMR EXCEPT !.initial_mmr = 0]
NARROW_POOL == [DEFAULT_MMR EXCEPT !.pool_min = 57, !.pool_max = 60]
MERIT_ONLY == [DEFAULT_MMR EXCEPT !.merit_weight = MUnit]
FLOOR_ONLY == [DEFAULT_MMR EXCEPT !.merit_weight = 0]

\* nothing fetched, nothing computed yet
Fresh ==
    /\ df = <<>>
    /\ groups = <<>>
    /\ gi = 0
    /\ ratings = <<>>
    /\ out_frames = <<>>
    /\ locals = Unbound
    /\ rating_result = <<>>
    /\ leaderboard = <<>>

\* a run starts from a configuration c and the tables of a history: k <= nm
\* matches with ids 1..k (enumerate(start=1))
InitRun(c, nm, times, stats, pls, poss, imps, maxr) ==
    /\ cfg = c
    /\ \E k \in 0..nm :
         \E h \in [1..k -> MatchSpecs(times, stats, pls, poss, imps, maxr)] :
            /\ match = MatchTable(h)
            /\ player_result = PlayerTable(h)
            /\ impact_result = ImpactTable(h)
    /\ pc = "init"
    /\ Fresh
    /\ sp_in = <<>>
    /\ sp_out = <<>>

Stat1 == { st \in Stats : st.duration_sec = 1800 }

\* the runs of the model:
\*   - histories of MaxMatches matches among all players, rosters of at most
\*     MaxRoster, one position, no impact rows, default configuration;
\*   - single matches with every roster, position and impact, default
\*     configuration;
\*   - histories of two players under the other configurations;
\*   - single matches with every roster and impact under the two extreme
\*     merit weights
InitRuns ==
    \/ InitRun(DEFAULT_MMR, MaxMatches, 1..MaxTime, Stat1, Players, {1},
               {NoImpact}, MaxRoster)
    \/ InitRun(DEFAULT_MMR, 1, {1}, Stats, Players, Positions,
               {-100, NoImpact, 100}, NPlayers)
    \/ \E c \in {ZERO_START, NARROW_POOL} :
         InitRun(c, MaxMatches, {1}, StatsZ, 1..2, {1}, {NoImpact}, 2)
    \/ \E c \in {MERIT_ONLY, FLOOR_ONLY} :
         InitRun(c, 1, {1}, Stat1, Players, {1}, {-100, NoImpact, 100},
                 NPlayers)

\* one-against-one matches without impact rows
Duels ==
    { m \in MatchSpecs({1}, Stat1, Players, {1}, {NoImpact}, 2) :
        /\ \E q \in Players :
              m.roster[q].present /\ m.roster[q].team = "radiant"
        /\ \E q \in Players :
              m.roster[q].present /\ m.roster[q].team = "dire" }

\* histories of one match more than MaxMatches, all of them duels, under the
\* default configuration
InitDuels ==
    /\ cfg = DEFAULT_MMR
    /\ \E h \in [1..(MaxMatches + 1) -> Duels] :
          /\ match = MatchTable(h)
          /\ player_result = PlayerTable(h)
          /\ impact_result = ImpactTable(h)
    /\ pc = "init"
    /\ Fresh
    /\ sp_in = <<>>
    /\ sp_out = <<>>

\* a team handed to the apportioner on its own: weights, tie keys and a
\* total; kind "shares" when the weights are those _shares gives for the
\* impacts imp on the winning or losing side under merit weight mw
InitSplitWith(weights, tie, total, kind, imp, winners, mw) ==
    /\ sp_in = [ weights |-> weights, tie |-> tie, total |-> total,
                 kind |-> kind, impact |-> imp, winners |-> winners,
                 merit_w |-> mw ]
    /\ sp_out = <<>>
    /\ pc = "split"
    /\ cfg = DEFAULT_MMR
    /\ match = {}
    /\ player_result = {}
    /\ impact_result = {}
    /\ Fresh

\* impacts given to _shares on its own: the clip bounds, the middle, and
\* values beyond the bounds
SplitImpacts == {-150, -100, 0, 100, 150}

\* the teams of the model: the shares _shares gives for up to MaxTeam impacts,
\* and every way to cut 1 into up to MaxTeam shares of Den-ths; totals up to
\* MaxTotal
InitSplit ==
    \E n \in 1..MaxTeam, total \in 0..MaxTotal :
        \/ \E imp \in [1..n -> SplitImpacts], winners \in BOOLEAN,
              mw \in {0, DEFAULT_MMR.merit_weight, MUnit} :
              InitSplitWith(_shares(imp, winners, mw).share,
                            _shares(imp, winners, mw).tie, total,
                            "shares", imp, winners, mw)
        \/ \E nums \in [1..n -> 0..Den], tie \in [1..n -> 0..1] :
              /\ SumSeq(nums) = Den
              /\ InitSplitWith([i \in 1..n |-> [n |-> nums[i], d |-> Den]],
                               tie, total, "cut", <<>>, TRUE, 0)

Init == InitRuns \/ InitDuels \/ InitSplit

---------------------------------------------------------------------------
(* calculate_ranked_mmr, step by step *)

tables == <<cfg, match, player_result, impact_result>>

\* lines 144-147: the views, the fetch, the empty ledger
Fetch ==
    /\ pc = "init"
    /\ \E d \in v_mmr_ordered :
         /\ df' = d
         /\ groups' = GroupKeys(d, {})
    /\ gi' = 0
    /\ ratings' = <<>>
    /\ out_frames' = <<>>
    /\ locals' = Unbound
    /\ pc' = "loop"
    /\ UNCHANGED <<tables, rating_result, leaderboard, sp_in, sp_out>>

NextGroup == GroupRows(df, groups[gi + 1])

\* lines 150-152: a group without both sides: continue
SkipMatch ==
    /\ pc = "loop"
    /\ gi < Len(groups)
    /\ ProcessGroup(ratings, NextGroup, cfg).skip
    /\ gi' = gi + 1
    /\ UNCHANGED <<tables, pc, df, groups, ratings, out_frames, locals,
                   rating_result, leaderboard, sp_in, sp_out>>

\* lines 154-209: one processed match
ProcessMatch ==
    /\ pc = "loop"
    /\ gi < Len(groups)
    /\ LET res == ProcessGroup(ratings, NextGroup, cfg)
       IN  /\ ~res.skip
           /\ ratings' = res.ratings
           /\ out_frames' = Append(out_frames, res.frame)
           /\ locals' = res.locals
    /\ gi' = gi + 1
    /\ UNCHANGED <<tables, pc, df, groups, rating_result, leaderboard, sp_in, sp_out>>

\* lines 210-212 raise: NameError when no match was processed (r_units is
\* unbound), AssertionError when an assert fails
FinishRaise ==
    /\ pc = "loop"
    /\ gi = Len(groups)
    /\ IF locals.bound THEN ~AssertsHold(locals) ELSE TRUE
    /\ pc' = "error"
    /\ UNCHANGED <<tables, df, groups, gi, ratings, out_frames, locals,
                   rating_result, leaderboard, sp_in, sp_out>>

\* lines 214-233: concat the frames, replace table rating_result
Finish ==
    /\ pc = "loop"
    /\ gi = Len(groups)
    /\ IF locals.bound THEN AssertsHold(locals) ELSE FALSE
    /\ rating_result' = SortResult(Flatten(out_frames))
    /\ pc' = "done"
    /\ UNCHANGED <<tables, df, groups, gi, ratings, out_frames, locals,
                   leaderboard,
                   sp_in, sp_out>>

\* _integer_split applied to the team sp_in
Split ==
    /\ pc = "split"
    /\ sp_out' = _integer_split(sp_in.weights, sp_in.total, sp_in.tie)
    /\ pc' = "split_done"
    /\ UNCHANGED <<tables, df, groups, gi, ratings, out_frames, locals,
                   rating_result, leaderboard, sp_in>>

\* configurations the specification calls invalid: merit_weight above 1, an
\* empty pool range, an inverted pool range
BAD_MERIT  == [DEFAULT_MMR EXCEPT !.merit_weight = 150]
FLAT_POOL  == [DEFAULT_MMR EXCEPT !.pool_min = 50, !.pool_max = 50]
INVERTED_POOL == [DEFAULT_MMR EXCEPT !.pool_min = 60, !.pool_max = 50]

\* runs under those configurations: single matches of every roster with
\* impacts, and histories of two players
InitCfg ==
    \E c \in {BAD_MERIT, FLAT_POOL, INVERTED_POOL} :
        \/ InitRun(c, 1, {1}, Stat1, Players, {1}, {-100, NoImpact, 100},
                   NPlayers)
        \/ InitRun(c, MaxMatches, {1}, Stat1, 1..2, {1}, {NoImpact}, 2)

\* calculate_ranked_mmr called again on the same connection: the locals of
\* the call that returned are gone, the tables and rating_result are as it
\* left them
Rerun ==
    /\ pc = "done"
    /\ pc' = "init"
    /\ df' = <<>>
    /\ groups' = <<>>
    /\ gi' = 0
    /\ ratings' = <<>>
    /\ out_frames' = <<>>
    /\ locals' = Unbound
    /\ UNCHANGED <<tables, rating_result, leaderboard, sp_in, sp_out>>

\* the histories that are run more than once: single matches of every roster
\* and position, and histories of two players
InitRerun ==
    \/ InitRun(DEFAULT_MMR, 1, {1}, Stat1, Players, Positions, {NoImpact},
               NPlayers)
    \/ InitRun(DEFAULT_MMR, MaxMatches, 1..MaxTime, Stat1, 1..2, {1},
               {NoImpact}, 2)

\* the lines a data file can add for a player it already lists in a match:
\* the same name on the other side (the parser takes every line under a team
\* marker, and player_result has no key)
SecondLines(h) ==
    UNION { { [ match_id    |-> k,
                player_name |-> q,
                team        |-> IF h[k].roster[q].team = "radiant" THEN "dire"
                                ELSE "radiant",
                position    |-> h[k].roster[q].position ] :
              q \in { x \in DOMAIN h[k].roster : h[k].roster[x].present } } :
            k \in DOMAIN h }

\* histories in which at most one player is listed on both sides of a match
InitTwice ==
    /\ cfg = DEFAULT_MMR
    /\ \E k \in 0..MaxMatches :
         \E h \in [1..k -> MatchSpecs({1}, Stat1, Players, {1}, {NoImpact},
                                      MaxRoster)] :
            \E extra \in SUBSET SecondLines(h) :
                /\ Cardinality(extra) <= 1
                /\ match = MatchTable(h)
                /\ player_result = PlayerTable(h) \cup extra
                /\ impact_result = ImpactTable(h)
    /\ pc = "init"
    /\ Fresh
    /\ sp_in = <<>>
    /\ sp_out = <<>>

\* join "match" m using (match_id): the date_time of match mid
DateOf(mid) == (CHOOSE m \in match : m.match_id = mid).date_time

\* the rows of rating_result joined with match that arg_max(rating_after,
\* date_time) can take for player q: those of q's greatest date_time
LatestRows(q) ==
    { i \in 1..Len(rating_result) :
        /\ rating_result[i].player_name = q
        /\ \A j \in 1..Len(rating_result) :
              rating_result[j].player_name = q =>
                DateOf(rating_result[j].match_id)
                  <= DateOf(rating_result[i].match_id) }

\* the names of rating_result (group by rr.player_name)
Rated_names == { rating_result[i].player_name : i \in 1..Len(rating_result) }

\* create or replace table leaderboard: the latest_rating of every player.
\* Among rows of equal date_time arg_max takes whichever it meets first.
Leaderboard ==
    /\ pc = "done"
    /\ \E pick \in [Rated_names -> 1..Len(rating_result)] :
          /\ \A q \in Rated_names : pick[q] \in LatestRows(q)
          /\ leaderboard' =
                [q \in Rated_names |-> rating_result[pick[q]].rating_after]
    /\ pc' = "board"
    /\ UNCHANGED <<tables, df, groups, gi, ratings, out_frames, locals,
                   rating_result, sp_in, sp_out>>

\* the histories the leaderboard is built from: default configuration,
\* matches at times 1..MaxTime
InitBoard ==
    InitRun(DEFAULT_MMR, MaxMatches, 1..MaxTime, Stat1, Players, {1},
            {NoImpact}, MaxRoster)

NextRun == Fetch \/ SkipMatch \/ ProcessMatch \/ FinishRaise \/ Finish

NextBoard == NextRun \/ Leaderboard

\* the run followed by the leaderboard query, as in main.py
SpecBoard == InitBoard /\ [][NextBoard]_vars

Next == NextRun \/ Split

Spec == Init /\ [][Next]_vars

\* the runs under the invalid configurations
SpecCfg == InitCfg /\ [][NextRun]_vars

\* the runs over histories with a player listed twice in a match
SpecTwice == InitTwice /\ [][NextRun]_vars

NextRerun == NextRun \/ Rerun

\* runs repeated on the same connection
SpecRerun == InitRerun /\ [][NextRerun]_vars

---------------------------------------------------------------------------
(* The whole run as a function of the rows fetched *)

\* the loop's state after one more group
FoldStep(st, res) ==
    IF res.skip THEN st
    ELSE [ ratings    |-> res.ratings,
           out_frames |-> Append(st.out_frames, res.frame),
           locals     |-> res.locals ]

RECURSIVE Fold(_, _, _, _)
\* lines 150-209 over the groups gs of the rows d
Fold(st, d, gs, c) ==
    IF gs = <<>> THEN st
    ELSE Fold(FoldStep(st, ProcessGroup(st.ratings, GroupRows(d, Head(gs)), c)),
              d, Tail(gs), c)

\* lines 210-233 on the loop's final state
Close(st) ==
    IF (IF st.locals.bound THEN AssertsHold(st.locals) ELSE FALSE)
    THEN [ pc |-> "done", ratings |-> st.ratings,
           rating_result |-> SortResult(Flatten(st.out_frames)) ]
    ELSE [ pc |-> "error", ratings |-> st.ratings, rating_result |-> <<>> ]

\* what calculate_ranked_mmr leaves when the fetch returns the rows d
Outcome(d, c) ==
    Close(Fold([ratings |-> <<>>, out_frames |-> <<>>, locals |-> Unbound],
               d, GroupKeys(d, {}), c))

\* every outcome the tables mt, prt, irt allow
Outcomes(mt, prt, irt, c) == { Outcome(d, c) : d \in MmrOrdered(mt, prt, irt) }

---------------------------------------------------------------------------
(* Vocabulary of the claims *)

\* the rating events so far, in the order the loop produced them
Events == Flatten(out_frames)

DiffsOf(frame) == [i \in 1..Len(frame) |-> frame[i].rating_diff]

MatchRow(mid) == CHOOSE m \in match : m.match_id = mid

\* canonical processing order of matches: (date_time, match_id) ascending
CanonLess(mid1, mid2) ==
    \/ MatchRow(mid1).date_time < MatchRow(mid2).date_time
    \/ /\ MatchRow(mid1).date_time = MatchRow(mid2).date_time
       /\ mid1 < mid2

\* the team of player q in match mid, from player_result
TeamIn(mid, q) ==
    (CHOOSE r \in player_result : r.match_id = mid /\ r.player_name = q).team

\* the position of player q in match mid, from player_result
PositionIn(mid, q) ==
    (CHOOSE r \in player_result : r.match_id = mid /\ r.player_name = q).position

\* the ids of the processed matches
Processed == { out_frames[k][1].match_id : k \in 1..Len(out_frames) }

\* player e's side won the match of event e
Won(e) == TeamIn(e.match_id, e.player_name) = MatchRow(e.match_id).winning_team

\* the events of a frame on the winning (w = TRUE) or losing side
SideEvents(frame, w) == SelectSeq(frame, LAMBDA e : Won(e) = w)

\* the events of player q so far, in the order the loop produced them
EventsOf(q) == SelectSeq(Events, LAMBDA e : e.player_name = q)

\* the player_result rows of match mid
Roster(mid) == { r \in player_result : r.match_id = mid }

\* the row of v_mmr_inputs behind event e
RowOf(e) ==
    CHOOSE r \in v_mmr_inputs :
        r.match_id = e.match_id /\ r.player_name = e.player_name

\* the team_share column of the events of team t in a frame
SharesOf(frame, t) ==
    [i \in 1..Len(SelectSeq(frame, LAMBDA e : RowOf(e).team = t)) |->
        SelectSeq(frame, LAMBDA e : RowOf(e).team = t)[i].team_share]

\* shares sh, fractions over one denominator, each lie in [0,1] and sum to 1
UnitShares(sh) ==
    /\ \A i \in 1..Len(sh) :
          /\ sh[i].d = sh[1].d /\ sh[i].d > 0
          /\ 0 <= sh[i].n /\ sh[i].n <= sh[i].d
    /\ SumSeq([i \in 1..Len(sh) |-> sh[i].n]) = sh[1].d

\* every share of sh is at least (1 - mw)/n for the team size n = Len(sh)
FloorShares(sh, mw) ==
    \A i \in 1..Len(sh) :
        sh[i].n * MUnit * Len(sh) >= (MUnit - mw) * sh[i].d

\* floor(share_i * total) of every share of a team
Quota(sh, total) == [i \in 1..Len(sh) |-> (sh[i].n * total) \div sh[i].d]

\* units is a quota apportionment of total over the shares sh: the remainder
\* of the floors is in 0..n-1, exactly that many rows get one unit over their
\* floor, and every row gets its floor or one more
IsQuota(sh, total, units) ==
    LET rem == total - SumSeq(Quota(sh, total))
    IN  /\ Len(units) = Len(sh)
        /\ rem >= 0 /\ rem <= Len(sh) - 1
        /\ Cardinality({ i \in 1..Len(sh) : units[i] = Quota(sh, total)[i] + 1 })
             = rem
        /\ \A i \in 1..Len(sh) :
             units[i] \in {Quota(sh, total)[i], Quota(sh, total)[i] + 1}

\* the merit of impact x on the winning (w = TRUE) or losing side is zero
NoMerit(x, w) == IF w THEN x <= -100 ELSE x >= 100

\* every share of sh is exactly 1/n for the team size n = Len(sh)
UniformShares(sh) == \A i \in 1..Len(sh) : sh[i].n * Len(sh) = sh[i].d

\* the position-weighted strength of team t in a frame, from the ratings its
\* events carry as rating_before
TeamStrength(frame, t) ==
    LET ev == SelectSeq(frame, LAMBDA e : RowOf(e).team = t)
    IN  Strength([i \in 1..Len(ev) |-> ev[i].rating_before],
                 [i \in 1..Len(ev) |-> RowOf(ev[i]).position], cfg)

\* both strengths of the match of a frame are non-positive
Degenerate(frame) ==
    /\ TeamStrength(frame, cfg.team_radiant) <= 0
    /\ TeamStrength(frame, cfg.team_dire) <= 0

\* k_log of the match of a frame
KLogOf(frame) ==
    KLog(MatchRow(frame[1].match_id).radiant_kills,
         MatchRow(frame[1].match_id).dire_kills,
         MatchRow(frame[1].match_id).duration_sec, cfg)

\* the events of player q in the frames before the k-th
PriorEvents(k, q) ==
    SelectSeq(Flatten(SubSeq(out_frames, 1, k - 1)),
              LAMBDA e : e.player_name = q)

\* the ledger entry of player q as the k-th processed match found it
LedgerBefore(k, q) ==
    IF PriorEvents(k, q) = << >> THEN cfg.initial_mmr
    ELSE PriorEvents(k, q)[Len(PriorEvents(k, q))].rating_after

\* th_log of the match of a frame, from the ratings before the match
ThLogOf(frame) ==
    ThLog(TeamStrength(frame, cfg.team_radiant),
          TeamStrength(frame, cfg.team_dire), cfg)

RECURSIVE LedgerTotal(_, _)
\* the sum of the ledger rt over the players of S
LedgerTotal(rt, S) ==
    IF S = {} THEN 0
    ELSE LET q == CHOOSE x \in S : TRUE
         IN  rt[q] + LedgerTotal(rt, S \ {q})

\* the columns of an event that the two engines are compared on
Compared(e) ==
    [ match_id      |-> e.match_id,
      player_name   |-> e.player_name,
      pool          |-> e.pool,
      rating_before |-> e.rating_before,
      rating_after  |-> e.rating_after,
      rating_diff   |-> e.rating_diff ]

ComparedSeq(ev) == [i \in 1..Len(ev) |-> Compared(ev[i])]

\* the run py of rating.py has the events and the ledger of the run so far,
\* and writes the table it wrote
AgreeWith(py) ==
    /\ ComparedSeq(py.rows) = ComparedSeq(Events)
    /\ py.ratings = ratings
    /\ pc = "done" =>
          ComparedSeq(SortResult(py.rows)) = ComparedSeq(rating_result)

\* the names listed in match mid
NamesOf(mid) == { r.player_name : r \in Roster(mid) }

\* the last event of player q so far
LastEvent(q) == EventsOf(q)[Len(EventsOf(q))]

---------------------------------------------------------------------------
(* Claims *)

\* C1 (Conservation): in every processed match the rating_diff of its rating
\* events sum to exactly 0, in the frames of the loop and in rating_result.
C1_Conservation ==
    /\ \A k \in 1..Len(out_frames) : SumSeq(DiffsOf(out_frames[k])) = 0
    /\ \A mid \in Processed :
         SumSeq(DiffsOf(SelectSeq(rating_result,
                                  LAMBDA e : e.match_id = mid))) = 0

\* a processed match with a team of two whose pool is odd: the two halves of
\* the pool are not whole numbers
C1_Witness ==
    \E k \in 1..Len(out_frames) :
        /\ Len(out_frames[k]) = 3
        /\ out_frames[k][1].pool % 2 = 1
        /\ \E i \in 1..3 : out_frames[k][i].rating_diff > 0

\* C2 (Exact apportionment): _integer_split, given n >= 1 non-negative shares
\* that sum to 1 and a total >= 0, returns n non-negative integers that sum
\* to the total; and in every processed match the units of the radiant roster
\* and those of the dire roster each sum to the pool.
C2_ExactApportionment ==
    /\ pc = "split_done" =>
         /\ Len(sp_out) = Len(sp_in.weights)
         /\ \A i \in 1..Len(sp_out) : sp_out[i] >= 0
         /\ SumSeq(sp_out) = sp_in.total
    /\ locals.bound =>
         /\ SumSeq(locals.r_units) = locals.pool
         /\ SumSeq(locals.d_units) = locals.pool
         /\ \A i \in 1..Len(locals.r_units) : locals.r_units[i] >= 0
         /\ \A i \in 1..Len(locals.d_units) : locals.d_units[i] >= 0

\* three shares whose floors leave two units to hand out
C2_Witness ==
    /\ pc = "split_done"
    /\ Len(sp_out) = 3
    /\ sp_in.total - SumSeq([i \in 1..3 |->
          (sp_in.weights[i].n * sp_in.total) \div sp_in.weights[i].d]) = 2

C4_OrderIndependent ==
    pc = "done" =>
        \A d \in v_mmr_ordered : Outcome(d, cfg).rating_result = rating_result

\* C5 (Canonical processing order): the frames come in strictly ascending
\* (date_time, match_id) order, and in every event rating_before is the
\* initial rating plus the rating_diff of exactly the player's events in
\* canonically earlier matches.
C5_CanonicalOrder ==
    /\ \A k, l \in 1..Len(out_frames) :
          k < l => CanonLess(out_frames[k][1].match_id, out_frames[l][1].match_id)
    /\ \A i \in 1..Len(Events) :
          Events[i].rating_before =
              cfg.initial_mmr
              + SumSeq(DiffsOf(SelectSeq(Events, LAMBDA e :
                    /\ e.player_name = Events[i].player_name
                    /\ CanonLess(e.match_id, Events[i].match_id))))

\* two processed matches sharing a player, the one with the larger id played
\* first and moving that player's rating
C5_Witness ==
    /\ Len(out_frames) = 2
    /\ out_frames[1][1].match_id > out_frames[2][1].match_id
    /\ \E i \in 1..Len(out_frames[1]), j \in 1..Len(out_frames[2]) :
          /\ out_frames[1][i].player_name = out_frames[2][j].player_name
          /\ out_frames[2][j].rating_before # cfg.initial_mmr

\* C6 (Bounded pool): the pool of every event is an integer between pool_min
\* and pool_max of the configuration.
C6_BoundedPool ==
    \A i \in 1..Len(Events) :
        /\ Events[i].pool \in Int
        /\ cfg.pool_min <= Events[i].pool
        /\ Events[i].pool <= cfg.pool_max

\* a pool cut down to pool_max: under the default bounds the same match has
\* a larger pool
C6_Witness ==
    /\ cfg = NARROW_POOL
    /\ \E i \in 1..Len(Events) :
          /\ Events[i].pool = cfg.pool_max
          /\ PoolOf(locals.th_log, locals.k_log, DEFAULT_MMR) > cfg.pool_max

\* C7 (Name tie-break): of two players of one team of a processed match with
\* equal shares (equal fractional parts and tie keys), the one whose name
\* comes first never gets fewer units than the other, whatever their
\* positions; stated for players of different positions, whose row order the
\* order by fixes.
C7_NameTieBreak ==
    \A k \in 1..Len(out_frames) :
        \A i, j \in 1..Len(out_frames[k]) :
            ( /\ TeamIn(out_frames[k][i].match_id, out_frames[k][i].player_name)
                   = TeamIn(out_frames[k][j].match_id, out_frames[k][j].player_name)
              /\ PositionIn(out_frames[k][i].match_id, out_frames[k][i].player_name)
                   # PositionIn(out_frames[k][j].match_id, out_frames[k][j].player_name)
              /\ out_frames[k][i].team_share = out_frames[k][j].team_share
              /\ out_frames[k][i].player_name < out_frames[k][j].player_name )
            => Abs(out_frames[k][i].rating_diff) >= Abs(out_frames[k][j].rating_diff)

\* a match has players on one side only
OneSided(mid) ==
    /\ \E r \in player_result : r.match_id = mid
    /\ \A r1, r2 \in { r \in player_result : r.match_id = mid } : r1.team = r2.team

\* C8 (Malformed roster skip): when the run has ended, a match with players
\* on one side only has no event, and the run's possible outcomes (ending,
\* ledger, rating_result) are those of the input without that match.
C8_MalformedSkip ==
    pc \in {"done", "error"} =>
        \A m \in match :
            OneSided(m.match_id) =>
                /\ \A i \in 1..Len(Events) : Events[i].match_id # m.match_id
                /\ Outcomes(match, player_result, impact_result, cfg)
                     = Outcomes(match \ {m},
                                { r \in player_result : r.match_id # m.match_id },
                                { r \in impact_result : r.match_id # m.match_id },
                                cfg)

\* a finished run over a one-sided match played before a processed match
\* that has one of its players
C8_Witness ==
    /\ pc = "done"
    /\ Len(out_frames) = 1
    /\ \E m \in match :
          /\ OneSided(m.match_id)
          /\ CanonLess(m.match_id, out_frames[1][1].match_id)
          /\ \E i \in 1..Len(out_frames[1]) :
                \E r \in player_result :
                    /\ r.match_id = m.match_id
                    /\ r.player_name = out_frames[1][i].player_name

\* the configurations the specification accepts
CfgValid(c) ==
    /\ c.pool_min < c.pool_max
    /\ 0 <= c.merit_weight /\ c.merit_weight <= MUnit

\* C9 (Configuration fail-fast): under a configuration with an empty or
\* inverted pool range, or a merit_weight outside [0,1], no match is
\* processed: no frame, no ledger entry, no rating_result, no normal end.
C9_FailFast ==
    ~CfgValid(cfg) =>
        /\ out_frames = <<>>
        /\ ratings = <<>>
        /\ rating_result = <<>>
        /\ pc # "done"

\* C10 (Bounded volatility): in every event |rating_diff| is at most the
\* pool of its match, which is at most pool_max.
C10_BoundedVolatility ==
    \A i \in 1..Len(Events) :
        /\ Abs(Events[i].rating_diff) <= Events[i].pool
        /\ Events[i].pool <= cfg.pool_max

\* the bound is met: a lone winner takes the whole pool while two losers
\* split it
C10_Witness ==
    \E k \in 1..Len(out_frames) :
        /\ Len(out_frames[k]) = 3
        /\ \E i, j \in 1..3 :
              /\ out_frames[k][i].rating_diff = out_frames[k][i].pool
              /\ out_frames[k][j].rating_diff < 0
              /\ -out_frames[k][j].rating_diff < out_frames[k][j].pool

\* C11 (Signed application): in every event rating_after is rating_before
\* plus rating_diff; the diffs of the winning side are >= 0 and are its units
\* of the pool (they sum to the pool), those of the losing side are <= 0 and
\* are minus its units of the same pool; the deltas of the last processed
\* match are its units with the side's sign.
C11_SignedApplication ==
    /\ \A i \in 1..Len(Events) :
          /\ Events[i].rating_after = Events[i].rating_before + Events[i].rating_diff
          /\ Won(Events[i]) => Events[i].rating_diff >= 0
          /\ ~Won(Events[i]) => Events[i].rating_diff <= 0
    /\ \A k \in 1..Len(out_frames) :
          /\ SumSeq(DiffsOf(SideEvents(out_frames[k], TRUE))) = out_frames[k][1].pool
          /\ SumSeq(DiffsOf(SideEvents(out_frames[k], FALSE))) = -out_frames[k][1].pool
    /\ locals.bound =>
          IF MatchRow(locals.match_id).winning_team = cfg.team_radiant
          THEN locals.r_delta = locals.r_units /\ locals.d_delta = Neg(locals.d_units)
          ELSE locals.r_delta = Neg(locals.r_units) /\ locals.d_delta = locals.d_units

\* two winners with different gains against one loser
C11_Witness ==
    \E k \in 1..Len(out_frames) :
        \E i, j, l \in 1..Len(out_frames[k]) :
            /\ Won(out_frames[k][i]) /\ Won(out_frames[k][j])
            /\ out_frames[k][i].rating_diff > out_frames[k][j].rating_diff
            /\ out_frames[k][j].rating_diff > 0
            /\ out_frames[k][l].rating_after < out_frames[k][l].rating_before

\* C12 (Lazy initialisation): the rating_before of a player's canonically
\* first event is the configured initial rating, whatever was processed
\* before it; the ledger holds an entry exactly for the players that have an
\* event, and it is the rating_after of the player's latest event, never the
\* initial rating again.
C12_LazyInit ==
    /\ \A i \in 1..Len(Events) :
          (~\E j \in 1..Len(Events) :
               /\ Events[j].player_name = Events[i].player_name
               /\ CanonLess(Events[j].match_id, Events[i].match_id))
          => Events[i].rating_before = cfg.initial_mmr
    /\ \A q \in Players :
          IF EventsOf(q) = <<>> THEN q \notin DOMAIN ratings
          ELSE /\ q \in DOMAIN ratings
               /\ ratings[q] = EventsOf(q)[Len(EventsOf(q))].rating_after

\* the second processed match brings a new player, who starts from the
\* initial rating, next to a player whose rating has already moved
C12_Witness ==
    /\ Len(out_frames) = 2
    /\ \E i, j \in 1..Len(out_frames[2]) :
          /\ \A l \in 1..Len(out_frames[1]) :
                out_frames[1][l].player_name # out_frames[2][i].player_name
          /\ out_frames[2][i].rating_before = cfg.initial_mmr
          /\ out_frames[2][j].rating_before # cfg.initial_mmr
          /\ cfg.initial_mmr # 0

C14_OutputOrder ==
    \A i, j \in 1..Len(rating_result) :
        i < j => ResultKeyLess(rating_result[i], rating_result[j])

\* a written result of at least three events whose order is not the order
\* in which the loop produced them
C14_Witness ==
    /\ pc = "done"
    /\ Len(rating_result) >= 3
    /\ rating_result # Events

\* C15 (Emission order), as stated: the written output is in canonical
\* processing order (date_time, match_id, team, position ascending) and is
\* the order in which the loop produced the events.
C15_EmittedCanonically ==
    pc = "done" =>
        /\ \A i, j \in 1..Len(rating_result) :
              i < j => ~OrderKeyLess(RowOf(rating_result[j]), RowOf(rating_result[i]))
        /\ rating_result = Events

\* C15 (Emission order), amended: the loop produces the events match by
\* match in ascending (date_time, match_id) order, within a match the radiant
\* rows before the dire rows, within a side by ascending position; the
\* written output holds the same events re-ordered by (match_id,
\* player_name).
C15_EmissionOrder ==
    /\ \A k, l \in 1..Len(out_frames) :
          k < l => CanonLess(out_frames[k][1].match_id, out_frames[l][1].match_id)
    /\ \A k \in 1..Len(out_frames) :
          \A i, j \in 1..Len(out_frames[k]) :
              i < j =>
                \/ /\ RowOf(out_frames[k][i]).team = cfg.team_radiant
                   /\ RowOf(out_frames[k][j]).team = cfg.team_dire
                \/ /\ RowOf(out_frames[k][i]).team = RowOf(out_frames[k][j]).team
                   /\ RowOf(out_frames[k][i]).position
                        <= RowOf(out_frames[k][j]).position
    /\ pc = "done" =>
          /\ \A i \in 1..Len(Events) :
                \E j \in 1..Len(rating_result) : rating_result[j] = Events[i]
          /\ \A i, j \in 1..Len(rating_result) :
                i < j => /\ rating_result[i].match_id <= rating_result[j].match_id
                         /\ rating_result[i].match_id = rating_result[j].match_id
                              => rating_result[i].player_name
                                   < rating_result[j].player_name

\* a finished run in which two teammates come in position order in the
\* frame and in the other order, by name, in the output
C15_Witness ==
    /\ pc = "done"
    /\ \E i, j \in 1..Len(Events) :
          /\ i < j
          /\ Events[i].match_id = Events[j].match_id
          /\ RowOf(Events[i]).team = RowOf(Events[j]).team
          /\ RowOf(Events[i]).position < RowOf(Events[j]).position
          /\ Events[i].player_name > Events[j].player_name

\* C16 (Re-run reproducibility): when a run on a connection that already
\* holds the rating_result of an earlier run has processed its last match,
\* what it is about to write is the rating_result already there.
C16_RerunReproduces ==
    ( /\ pc = "loop"
      /\ gi = Len(groups)
      /\ rating_result # <<>> )
    => SortResult(Flatten(out_frames)) = rating_result

\* the part of C16 that does not depend on the order of the fetched rows:
\* every finished run, a repeated one included, has the ledger and the
\* result of a run from an empty ledger over the rows it fetched
C16_FreshLedger ==
    pc = "done" =>
        Outcome(df, cfg) = [ pc |-> "done", ratings |-> ratings,
                             rating_result |-> rating_result ]

\* C17 (One-versus-one match): in a processed match with one player on each
\* side the winner's rating_diff is +pool and the loser's is -pool, whatever
\* their impacts; a team of one handed to the apportioner gets the whole
\* total.
C17_OneVersusOne ==
    /\ \A k \in 1..Len(out_frames) :
          Len(out_frames[k]) = 2 =>
              \A i \in 1..2 :
                  out_frames[k][i].rating_diff =
                      IF Won(out_frames[k][i]) THEN out_frames[k][i].pool
                      ELSE -out_frames[k][i].pool
    /\ (pc = "split_done" /\ Len(sp_in.weights) = 1) => sp_out = <<sp_in.total>>

\* a one-versus-one match won by a player with the lowest impact against a
\* player with the highest
C17_Witness ==
    \E k \in 1..Len(out_frames) :
        /\ Len(out_frames[k]) = 2
        /\ \E i, j \in 1..2 :
              /\ Won(out_frames[k][i])
              /\ RowOf(out_frames[k][i]).impact = -100
              /\ RowOf(out_frames[k][j]).impact = 100
              /\ out_frames[k][i].rating_diff = out_frames[k][i].pool
              /\ out_frames[k][j].rating_diff = -out_frames[k][j].pool

\* C18 (Merit monotonicity): of two teammates in a processed match the one
\* with the strictly higher impact has a rating_diff at least as large: on
\* the winning side he gains at least as much, on the losing side he loses
\* at most as much.
C18_MeritMonotone ==
    \A k \in 1..Len(out_frames) :
        \A i, j \in 1..Len(out_frames[k]) :
            ( /\ RowOf(out_frames[k][i]).team = RowOf(out_frames[k][j]).team
              /\ RowOf(out_frames[k][i]).impact > RowOf(out_frames[k][j]).impact )
            => out_frames[k][i].rating_diff >= out_frames[k][j].rating_diff

\* two losing teammates, the one with the higher impact losing strictly less
C18_Witness ==
    \E k \in 1..Len(out_frames) :
        \E i, j \in 1..Len(out_frames[k]) :
            /\ ~Won(out_frames[k][i]) /\ ~Won(out_frames[k][j])
            /\ RowOf(out_frames[k][i]).impact > RowOf(out_frames[k][j]).impact
            /\ out_frames[k][i].rating_diff > out_frames[k][j].rating_diff

\* C19 (Share normalisation): with merit_weight in [0,1] the team_share of
\* the players of each team of a processed match each lie in [0,1] and sum
\* to 1, and so do the shares _shares gives for any impacts, beyond the clip
\* bounds included.
C19_ShareNormalisation ==
    /\ \A k \in 1..Len(out_frames) :
          \A t \in Teams : UnitShares(SharesOf(out_frames[k], t))
    /\ (pc \in {"split", "split_done"} /\ sp_in.kind = "shares")
          => UnitShares(sp_in.weights)

\* a processed match under the default weight with two teammates of
\* different impact, whose shares differ and still sum to 1
C19_Witness ==
    \E k \in 1..Len(out_frames) :
        \E i, j \in 1..Len(out_frames[k]) :
            /\ cfg.merit_weight = DEFAULT_MMR.merit_weight
            /\ RowOf(out_frames[k][i]).team = RowOf(out_frames[k][j]).team
            /\ out_frames[k][i].team_share.n < out_frames[k][j].team_share.n
            /\ out_frames[k][i].team_share.n + out_frames[k][j].team_share.n
                 = out_frames[k][i].team_share.d

\* C20 (Minimum share floor): with merit_weight in [0,1] every player's share
\* in a team of n is at least (1 - merit_weight)/n, in the events of every
\* processed match and in what _shares gives for any impacts, zero and
\* beyond the clip bounds included.
C20_MinimumShare ==
    /\ \A k \in 1..Len(out_frames) :
          \A t \in Teams :
              FloorShares(SharesOf(out_frames[k], t), cfg.merit_weight)
    /\ (pc \in {"split", "split_done"} /\ sp_in.kind = "shares")
          => FloorShares(sp_in.weights, sp_in.merit_w)

\* a processed match won by two teammates, one at the lower clip bound of
\* the impact and one at the upper: the first gets exactly the floor
\* (1 - merit_weight)/2, which is not zero
C20_Witness ==
    \E k \in 1..Len(out_frames) :
        \E i, j \in 1..Len(out_frames[k]) :
            /\ Won(out_frames[k][i]) /\ Won(out_frames[k][j])
            /\ RowOf(out_frames[k][i]).impact = -100
            /\ RowOf(out_frames[k][j]).impact = 100
            /\ out_frames[k][i].team_share.n * MUnit * 2
                 = (MUnit - cfg.merit_weight) * out_frames[k][i].team_share.d
            /\ out_frames[k][i].team_share.n > 0

\* C21 (Skew positivity): in the events of every processed match th_skew > 0
\* and pr_skew > 0, and the th_log of the match lies in [-th_clip, +th_clip],
\* whatever the ratings (zero and negative team strengths included) and the
\* kill counts (0-0 included).
C21_SkewPositivity ==
    /\ \A k \in 1..Len(out_frames) :
          \A i \in 1..Len(out_frames[k]) :
              out_frames[k][i].th_skew > 0 /\ out_frames[k][i].pr_skew > 0
    /\ (locals.bound /\ out_frames # << >>) =>
          /\ -cfg.th_clip * Scale <= locals.th_log
          /\ locals.th_log <= cfg.th_clip * Scale
          /\ \A i \in 1..Len(out_frames[Len(out_frames)]) :
                /\ out_frames[Len(out_frames)][i].th_skew = Exp(locals.th_log)
                /\ out_frames[Len(out_frames)][i].pr_skew = Exp(locals.k_log)

\* a match without kills between a team of negative strength and one of
\* positive strength: th_log sits on a clip bound and k_log is zero
C21_Witness ==
    /\ locals.bound /\ out_frames # << >>
    /\ MatchRow(locals.match_id).radiant_kills = 0
    /\ MatchRow(locals.match_id).dire_kills = 0
    /\ Abs(locals.th_log) = cfg.th_clip * Scale
    /\ locals.k_log = 0
    /\ \E i \in 1..Len(out_frames[Len(out_frames)]) :
          out_frames[Len(out_frames)][i].rating_before < 0
    /\ \A i \in 1..Len(out_frames[Len(out_frames)]) :
          /\ out_frames[Len(out_frames)][i].th_skew > 0
          /\ out_frames[Len(out_frames)][i].pr_skew > 0

\* C22 (Quota property): the remainder pool - sum of floor(share_i * pool) is
\* an integer in [0, n-1], exactly that many distinct players get one extra
\* unit, and every allocation is the floor or the floor plus one; for the
\* apportioner on its own and for both teams of every processed match.
C22_Quota ==
    /\ pc = "split_done" => IsQuota(sp_in.weights, sp_in.total, sp_out)
    /\ \A k \in 1..Len(out_frames) :
          \A w \in BOOLEAN :
              LET ev == SideEvents(out_frames[k], w)
              IN  ev # << >> =>
                    IsQuota([i \in 1..Len(ev) |-> ev[i].team_share],
                            ev[1].pool,
                            [i \in 1..Len(ev) |-> Abs(ev[i].rating_diff)])

\* three shares whose floors leave two units, handed to two different rows
C22_Witness ==
    /\ pc = "split_done"
    /\ Len(sp_out) = 3
    /\ Cardinality({ i \in 1..3 :
          sp_out[i] = Quota(sp_in.weights, sp_in.total)[i] + 1 }) = 2
    /\ \E i \in 1..3 : sp_out[i] = Quota(sp_in.weights, sp_in.total)[i]

\* C23 (Zero-merit fallback): when the merit values of a team sum to zero
\* (every winner's impact <= -100, or every loser's impact >= +100) every
\* player gets exactly the uniform share 1/n and the units still sum to the
\* pool; for what _shares gives on its own and for every processed match.
C23_ZeroMeritFallback ==
    /\ ( /\ pc \in {"split", "split_done"} /\ sp_in.kind = "shares"
         /\ \A i \in 1..Len(sp_in.impact) :
               NoMerit(sp_in.impact[i], sp_in.winners) )
          => /\ UniformShares(sp_in.weights)
             /\ pc = "split_done" => SumSeq(sp_out) = sp_in.total
    /\ \A k \in 1..Len(out_frames) :
          \A w \in BOOLEAN :
              LET ev == SideEvents(out_frames[k], w)
              IN  ( /\ ev # << >>
                    /\ \A i \in 1..Len(ev) : NoMerit(RowOf(ev[i]).impact, w) )
                    => /\ UniformShares([i \in 1..Len(ev) |-> ev[i].team_share])
                       /\ SumSeq([i \in 1..Len(ev) |-> Abs(ev[i].rating_diff)])
                            = ev[1].pool

\* a processed match won by two teammates who both have impact -100 under a
\* positive merit weight: each has share 1/2 and their gains sum to the pool
C23_Witness ==
    \E k \in 1..Len(out_frames) :
        LET ev == SideEvents(out_frames[k], TRUE)
        IN  /\ Len(ev) = 2
            /\ cfg.merit_weight > 0
            /\ \A i \in 1..2 : RowOf(ev[i]).impact = -100
            /\ \A i \in 1..2 : ev[i].team_share.n * 2 = ev[i].team_share.d
            /\ ev[1].rating_diff + ev[2].rating_diff = ev[1].pool

\* C24 (Degenerate strength): when both teams' position-weighted strengths
\* are non-positive, th_log = 0 and th_skew = 1, the match is processed like
\* any other (events for both rosters, the ledger written), and the pool is
\* the one of z = w_k * k_log.
C24_DegenerateStrength ==
    /\ \A k \in 1..Len(out_frames) :
          Degenerate(out_frames[k]) =>
            /\ \A i \in 1..Len(out_frames[k]) :
                  /\ out_frames[k][i].th_skew = Scale
                  /\ out_frames[k][i].pool
                       = PoolOf(0, KLogOf(out_frames[k]), cfg)
            /\ Evidence(0, KLogOf(out_frames[k]), cfg)
                 = cfg.w_k * KLogOf(out_frames[k])
            /\ Len(out_frames[k])
                 = Cardinality(Roster(out_frames[k][1].match_id))
    /\ (locals.bound /\ out_frames # << >>
          /\ Degenerate(out_frames[Len(out_frames)]))
          => /\ locals.th_log = 0
             /\ pc # "error"
             /\ \A i \in 1..Len(out_frames[Len(out_frames)]) :
                   ratings[out_frames[Len(out_frames)][i].player_name]
                     = out_frames[Len(out_frames)][i].rating_after

\* a first match between players who all start at rating 0, with kills
\* that are not balanced: both strengths are 0, th_skew is 1, the pool is
\* moved by k_log alone
C24_Witness ==
    /\ cfg.initial_mmr = 0
    /\ Len(out_frames) = 1
    /\ Degenerate(out_frames[1])
    /\ KLogOf(out_frames[1]) # 0
    /\ out_frames[1][1].th_skew = Scale
    /\ out_frames[1][1].pool # cfg.base_pool
    /\ locals.bound /\ locals.th_log = 0

\* C25 (Per-match atomic read-then-write): all events of one match carry the
\* same pool, th_skew and pr_skew, and these are the ones computed from the
\* ledger ratings as they were before any delta of that match was applied.
C25_AtomicMatch ==
    \A k \in 1..Len(out_frames) :
        \A i \in 1..Len(out_frames[k]) :
            /\ out_frames[k][i].pool = out_frames[k][1].pool
            /\ out_frames[k][i].th_skew = out_frames[k][1].th_skew
            /\ out_frames[k][i].pr_skew = out_frames[k][1].pr_skew
            /\ out_frames[k][i].rating_before
                 = LedgerBefore(k, out_frames[k][i].player_name)
            /\ out_frames[k][i].th_skew = Exp(ThLogOf(out_frames[k]))
            /\ out_frames[k][i].pr_skew = Exp(KLogOf(out_frames[k]))
            /\ out_frames[k][i].pool
                 = PoolOf(ThLogOf(out_frames[k]), KLogOf(out_frames[k]), cfg)

\* a second match between a player the first match moved and one it did
\* not: the strengths differ, th_skew is not 1 and both events carry it
C25_Witness ==
    /\ Len(out_frames) = 2
    /\ Len(out_frames[2]) >= 2
    /\ \E i, j \in 1..Len(out_frames[2]) :
          /\ out_frames[2][i].rating_before # cfg.initial_mmr
          /\ out_frames[2][j].rating_before = cfg.initial_mmr
    /\ out_frames[2][1].th_skew # Scale
    /\ \A i \in 1..Len(out_frames[2]) :
          /\ out_frames[2][i].th_skew = out_frames[2][1].th_skew
          /\ out_frames[2][i].pool = out_frames[2][1].pool
          /\ out_frames[2][i].pool # out_frames[1][1].pool

\* every match lists a player at most once
ListedOnce ==
    \A r1, r2 \in player_result :
        (r1.match_id = r2.match_id /\ r1.player_name = r2.player_name)
          => r1 = r2

\* C26 (Ledger total conserved): after any prefix of processed matches of
\* any input history the sum of the ledger ratings over the players seen so
\* far is the initial rating times the number of players seen.
C26_LedgerTotal ==
    LedgerTotal(ratings, DOMAIN ratings)
      = cfg.initial_mmr * Cardinality(DOMAIN ratings)

\* what does hold: the ledger total is conserved over the histories in which
\* every match lists a player at most once
C26_ListedOnceTotal == ListedOnce => C26_LedgerTotal

\* C27 (The two full variants agree): over histories in which every match
\* lists a player at most once, once a match has been processed the events of
\* rating.py on the rows fetched are those of rating_complex.py (same pool,
\* rating_before, rating_after and rating_diff for every match and player,
\* the holders of the extra units on apportionment ties included), the two
\* ledgers are equal, and so are the tables written.
C27_VariantsAgree ==
    (ListedOnce /\ pc \in {"loop", "done"} /\ out_frames # << >>) =>
        AgreeWith(rating_calculate_ranked_mmr(df, SubSeq(groups, 1, gi), cfg))

\* a finished run with a match in which two teammates tie in share and in
\* merit and the pool is odd: one of them holds the extra unit, the same one
\* in both engines
C27_Witness ==
    /\ pc = "done"
    /\ ListedOnce
    /\ \E i, j \in 1..Len(rating_result) :
          /\ rating_result[i].match_id = rating_result[j].match_id
          /\ rating_result[i].team_share = rating_result[j].team_share
          /\ Abs(rating_result[i].rating_diff)
               = Abs(rating_result[j].rating_diff) + 1
    /\ AgreeWith(rating_calculate_ranked_mmr(df, groups, cfg))

\* C28 (Frame condition): a step of the loop changes the ledger only for the
\* players listed in the match it handles: everyone else keeps their entry,
\* present or not; and the ledger entry of a player is always the
\* rating_after of that player's own last event, whatever matches of others
\* came after it.
C28_Frame ==
    [][ (pc = "loop" /\ gi' = gi + 1) =>
          /\ \A q \in Players \ NamesOf(groups[gi + 1]) :
                /\ (q \in DOMAIN ratings') = (q \in DOMAIN ratings)
                /\ q \in DOMAIN ratings => ratings'[q] = ratings[q]
          /\ \A q \in DOMAIN ratings' :
                /\ EventsOf(q)' # << >>
                /\ ratings'[q] = LastEvent(q)'.rating_after ]_vars

\* three processed matches: a player of the first sits out the second and
\* plays the third, where the rating read is the one the first left
C28_Witness ==
    /\ Len(out_frames) = 3
    /\ \E q \in Players :
          /\ \E i \in 1..Len(out_frames[1]) : out_frames[1][i].player_name = q
          /\ \A i \in 1..Len(out_frames[2]) : out_frames[2][i].player_name # q
          /\ \E i \in 1..Len(out_frames[1]), j \in 1..Len(out_frames[3]) :
                /\ out_frames[1][i].player_name = q
                /\ out_frames[3][j].player_name = q
                /\ out_frames[3][j].rating_before
                     = out_frames[1][i].rating_after
                /\ out_frames[3][j].rating_before # cfg.initial_mmr
          /\ \E p \in Players :
                \E i \in 1..Len(out_frames[2]) :
                    /\ out_frames[2][i].player_name = p
                    /\ out_frames[2][i].rating_diff # 0

\* C29 (No-match run): when no match is processed at all (the input is empty,
\* or every match lacks a roster on one side), the run completes without
\* error and writes an empty rating_result.
C29_NoMatchRun ==
    (pc \in {"done", "error"} /\ out_frames = << >>) =>
        pc = "done" /\ rating_result = << >>

\* what does hold: a run that processed no match always ends in the error
\* raised at the asserts, and writes nothing
C29_NoMatchRaises ==
    (pc \in {"done", "error"} /\ out_frames = << >>) =>
        pc = "error" /\ rating_result = << >> /\ locals = Unbound

\* no player has two events in matches of the same date_time
DistinctTimes ==
    \A i, j \in 1..Len(rating_result) :
        ( /\ rating_result[i].player_name = rating_result[j].player_name
          /\ rating_result[i].match_id # rating_result[j].match_id )
          => MatchRow(rating_result[i].match_id).date_time
               # MatchRow(rating_result[j].match_id).date_time

\* C30 (Leaderboard reflects the final ledger): for every player the rating
\* in the leaderboard is the player's ledger rating after the last match
\* they played in canonical processing order, also when two of the player's
\* matches carry the same date_time.
C30_LeaderboardFinal ==
    pc = "board" =>
        /\ DOMAIN leaderboard = DOMAIN ratings
        /\ \A q \in DOMAIN leaderboard :
              /\ leaderboard[q] = ratings[q]
              /\ leaderboard[q] = LastEvent(q).rating_after

\* what does hold: the leaderboard shows the final ledger when no player has
\* two matches of the same date_time
C30_DistinctTimesFinal == DistinctTimes => C30_LeaderboardFinal

====
